---- MODULE Spec2Model ----
(***************************************************************************)
(* Model of the line buffer of src/src/buffer.rs (struct Buffer and its    *)
(* methods) together with the part of the filesystem it touches.           *)
(*                                                                         *)
(* A String is modelled as the sequence of its characters (code points);   *)
(* its length and its column positions are counted in UTF-8 bytes, as      *)
(* String::len, String::insert and String::remove do.                      *)
(* An Option is modelled as a sequence of length 0 (None) or 1 (Some).     *)
(***************************************************************************)
EXTENDS Integers, Sequences, FiniteSets, TLC

VARIABLES file, lines, modified, disk, dirs, last, old

vars == <<file, lines, modified, disk, dirs, last, old>>

(* ---------------------------- bounds ----------------------------------- *)
MaxFileLen == 2      \* characters of a file present before the first call
MaxBytes == 3        \* insert_char is not called to grow the text beyond this
MaxIndex == 2        \* largest line index passed to a call
MaxCol == 2          \* largest column passed to a call

(* ---------------------------- characters ------------------------------- *)
LF == 10
CR == 13
Chars == {LF, 233}       \* passed to insert_char: '\n' and the two-byte U+00E9
FileChars == {LF, CR}    \* characters of the file found on disk at the start

None == <<>>
Some(x) == <<x>>

\* char::len_utf8
Utf8Len(c) == IF c < 128 THEN 1 ELSE IF c < 2048 THEN 2 ELSE IF c < 65536 THEN 3 ELSE 4

RECURSIVE ByteLen(_)
\* String::len: the length in bytes
ByteLen(s) == IF s = <<>> THEN 0 ELSE Utf8Len(Head(s)) + ByteLen(Tail(s))

\* str::is_char_boundary
IsCharBoundary(s, col) == \E k \in 0..Len(s) : ByteLen(SubSeq(s, 1, k)) = col

\* the number of characters in front of the byte offset col (a boundary)
CharIndex(s, col) == CHOOSE k \in 0..Len(s) : ByteLen(SubSeq(s, 1, k)) = col

\* Vec::remove / String::remove on the element at 1-based position k
RemoveAt(s, k) == SubSeq(s, 1, k - 1) \o SubSeq(s, k + 1, Len(s))

\* String::insert in front of the element at 1-based position k
InsertAt(s, k, c) == SubSeq(s, 1, k - 1) \o <<c>> \o SubSeq(s, k, Len(s))

(* ---------------------------- text <-> lines --------------------------- *)
\* position of the first '\n' of s, 0 when there is none
FirstLF(s) == IF \E k \in 1..Len(s) : s[k] = LF
              THEN CHOOSE k \in 1..Len(s) : s[k] = LF /\ \A j \in 1..(k - 1) : s[j] # LF
              ELSE 0

\* one piece of split_inclusive('\n') with its "\n" or "\r\n" ending removed
StripLineEnding(seg) ==
    IF seg # <<>> /\ seg[Len(seg)] = LF
    THEN LET t == SubSeq(seg, 1, Len(seg) - 1)
         IN IF t # <<>> /\ t[Len(t)] = CR THEN SubSeq(t, 1, Len(t) - 1) ELSE t
    ELSE seg

RECURSIVE StrLines(_)
\* str::lines().collect()
StrLines(s) ==
    IF s = <<>> THEN <<>>
    ELSE LET k == FirstLF(s)
         IN IF k = 0 THEN <<StripLineEnding(s)>>
            ELSE <<StripLineEnding(SubSeq(s, 1, k))>> \o StrLines(SubSeq(s, k + 1, Len(s)))

RECURSIVE JoinLines(_)
\* self.lines.join("\n")
JoinLines(ls) ==
    IF ls = <<>> THEN <<>>
    ELSE IF Len(ls) = 1 THEN ls[1]
    ELSE ls[1] \o <<LF>> \o JoinLines(Tail(ls))

(* ---------------------------- filesystem ------------------------------- *)
Paths == {"d/g"}
PathArgs == Paths \cup {""}

\* Path::parent: None for the empty path
Parent(p) == IF p = "" THEN None ELSE IF p = "d/g" THEN Some("d") ELSE Some("")

\* Path::exists
Exists(dk, p) == p \in Paths /\ dk[p] # None

RECURSIVE SeqsUpTo(_, _)
SeqsUpTo(S, n) ==
    IF n = 0 THEN {<<>>}
    ELSE LET R == SeqsUpTo(S, n - 1)
         IN R \cup {Append(r, c) : r \in {q \in R : Len(q) = n - 1}, c \in S}

FileContents == SeqsUpTo(FileChars, MaxFileLen)

(* ---------------------------- results ---------------------------------- *)
Outcome(b, res, val) == [file |-> b.file, lines |-> b.lines, modified |-> b.modified,
                         res |-> res, val |-> val]

Self == [file |-> file, lines |-> lines, modified |-> modified]

Call(op, line, col, ch, path, res, val) ==
    [op |-> op, line |-> line, col |-> col, ch |-> ch, path |-> path, res |-> res, val |-> val]

Running == last.res # "Panic"

(* ---------------------------- Buffer ----------------------------------- *)
\* Buffer::from_file; readOk is whether read_to_string succeeds
from_file(dk, f, readOk) ==
    IF f # None
    THEN IF ~Exists(dk, f[1])
         THEN Outcome([file |-> f, lines |-> <<>>, modified |-> FALSE], "FileNotFound", -1)
         ELSE IF ~readOk
         THEN Outcome([file |-> f, lines |-> <<>>, modified |-> FALSE], "IoError", -1)
         ELSE Outcome([file |-> f, lines |-> StrLines(dk[f[1]][1]), modified |-> FALSE], "Ok", -1)
    ELSE Outcome([file |-> f, lines |-> << <<>> >>, modified |-> FALSE], "Ok", -1)

\* Buffer::len
len(b) == Len(b.lines)

\* Buffer::get_line and Buffer::get_line_mut: the line, or InvalidLineIndex
get_line(b, index) ==
    IF index < Len(b.lines) THEN [res |-> "Ok", line |-> b.lines[index + 1]]
    ELSE [res |-> "InvalidLineIndex", line |-> <<>>]

\* Buffer::line_length
line_length(b, index) ==
    LET g == get_line(b, index)
    IN IF g.res = "Ok" THEN Outcome(b, "Ok", ByteLen(g.line)) ELSE Outcome(b, g.res, -1)

\* Buffer::display_name
display_name(b) == IF b.file # None THEN b.file[1] ELSE "[No Name]"

\* insert_char with the modified flag set before the column is checked
insert_char_marks_first(b, line, col, c) ==
    LET g == get_line(b, line)
        m == [b EXCEPT !.modified = TRUE]
    IN IF g.res # "Ok" THEN Outcome(b, g.res, -1)
       ELSE IF col > ByteLen(g.line) THEN Outcome(m, "InvalidColumnIndex", -1)
       ELSE IF ~IsCharBoundary(g.line, col) THEN Outcome(b, "Panic", -1)
       ELSE Outcome([m EXCEPT !.lines[line + 1] = InsertAt(g.line, CharIndex(g.line, col) + 1, c)],
                    "Ok", -1)

\* insert_char with the column check of remove_char (col >= len)
insert_char_strict_col(b, line, col, c) ==
    LET g == get_line(b, line)
    IN IF g.res # "Ok" THEN Outcome(b, g.res, -1)
       ELSE IF col >= ByteLen(g.line) THEN Outcome(b, "InvalidColumnIndex", -1)
       ELSE IF ~IsCharBoundary(g.line, col) THEN Outcome(b, "Panic", -1)
       ELSE Outcome([b EXCEPT !.lines[line + 1] = InsertAt(g.line, CharIndex(g.line, col) + 1, c),
                              !.modified = TRUE], "Ok", -1)

\* Buffer::insert_char
insert_char(b, line, col, c) ==
    LET g == get_line(b, line)
    IN IF g.res # "Ok" THEN Outcome(b, g.res, -1)
       ELSE IF col > ByteLen(g.line) THEN Outcome(b, "InvalidColumnIndex", -1)
       ELSE IF ~IsCharBoundary(g.line, col) THEN Outcome(b, "Panic", -1)
       ELSE Outcome([b EXCEPT !.lines[line + 1] = InsertAt(g.line, CharIndex(g.line, col) + 1, c),
                              !.modified = TRUE], "Ok", -1)

\* remove_char that leaves the modified flag alone
remove_char_no_flag(b, line, col) ==
    LET g == get_line(b, line)
    IN IF g.res # "Ok" THEN Outcome(b, g.res, -1)
       ELSE IF col >= ByteLen(g.line) THEN Outcome(b, "InvalidColumnIndex", -1)
       ELSE IF ~IsCharBoundary(g.line, col) THEN Outcome(b, "Panic", -1)
       ELSE LET k == CharIndex(g.line, col) + 1
            IN Outcome([b EXCEPT !.lines[line + 1] = RemoveAt(g.line, k)], "Ok", g.line[k])

\* Buffer::remove_char
remove_char(b, line, col) ==
    LET g == get_line(b, line)
    IN IF g.res # "Ok" THEN Outcome(b, g.res, -1)
       ELSE IF col >= ByteLen(g.line) THEN Outcome(b, "InvalidColumnIndex", -1)
       ELSE IF ~IsCharBoundary(g.line, col) THEN Outcome(b, "Panic", -1)
       ELSE LET k == CharIndex(g.line, col) + 1
            IN Outcome([b EXCEPT !.lines[line + 1] = RemoveAt(g.line, k), !.modified = TRUE],
                       "Ok", g.line[k])

\* join_with_previous_line without its line_index == 0 check: line 0 is
\* removed before the lookup of line_index - 1 fails
join_without_zero_check(b, line_index) ==
    IF line_index >= Len(b.lines) THEN Outcome(b, "Panic", -1)
    ELSE LET current_line == b.lines[line_index + 1]
             removed == [b EXCEPT !.lines = RemoveAt(b.lines, line_index + 1)]
         IN IF line_index = 0 THEN Outcome(removed, "InvalidLineIndex", -1)
            ELSE LET g == get_line(removed, line_index - 1)
                 IN IF g.res # "Ok" THEN Outcome(removed, g.res, -1)
                    ELSE Outcome([removed EXCEPT !.lines[line_index] = g.line \o current_line,
                                                 !.modified = TRUE], "Ok", ByteLen(g.line))

\* join_with_previous_line that leaves the modified flag alone
join_no_flag(b, line_index) ==
    IF line_index = 0 THEN Outcome(b, "InvalidLineIndex", -1)
    ELSE IF line_index >= Len(b.lines) THEN Outcome(b, "Panic", -1)
    ELSE LET current_line == b.lines[line_index + 1]
             removed == [b EXCEPT !.lines = RemoveAt(b.lines, line_index + 1)]
             g == get_line(removed, line_index - 1)
         IN IF g.res # "Ok" THEN Outcome(removed, g.res, -1)
            ELSE Outcome([removed EXCEPT !.lines[line_index] = g.line \o current_line],
                         "Ok", ByteLen(g.line))

\* join_with_previous_line that takes the length after push_str
join_returns_new_length(b, line_index) ==
    IF line_index = 0 THEN Outcome(b, "InvalidLineIndex", -1)
    ELSE IF line_index >= Len(b.lines) THEN Outcome(b, "Panic", -1)
    ELSE LET current_line == b.lines[line_index + 1]
             removed == [b EXCEPT !.lines = RemoveAt(b.lines, line_index + 1)]
             g == get_line(removed, line_index - 1)
         IN IF g.res # "Ok" THEN Outcome(removed, g.res, -1)
            ELSE Outcome([removed EXCEPT !.lines[line_index] = g.line \o current_line,
                                         !.modified = TRUE], "Ok", ByteLen(g.line \o current_line))

\* Buffer::join_with_previous_line
join_with_previous_line(b, line_index) ==
    IF line_index = 0 THEN Outcome(b, "InvalidLineIndex", -1)
    ELSE IF line_index >= Len(b.lines) THEN Outcome(b, "Panic", -1)   \* Vec::remove
    ELSE LET current_line == b.lines[line_index + 1]
             removed == [b EXCEPT !.lines = RemoveAt(b.lines, line_index + 1)]
             g == get_line(removed, line_index - 1)
         IN IF g.res # "Ok" THEN Outcome(removed, g.res, -1)
            ELSE Outcome([removed EXCEPT !.lines[line_index] = g.line \o current_line,
                                         !.modified = TRUE], "Ok", ByteLen(g.line))

\* delete_line without the branch that keeps a single line
delete_line_no_single_case(b, index) ==
    IF b.lines = <<>> THEN Outcome(b, "InvalidLineIndex", -1)
    ELSE IF index >= Len(b.lines) THEN Outcome(b, "InvalidLineIndex", -1)
    ELSE Outcome([b EXCEPT !.lines = RemoveAt(b.lines, index + 1), !.modified = TRUE], "Ok", -1)

\* delete_line that removes the line after the one asked for
delete_line_off_by_one(b, index) ==
    IF b.lines = <<>> THEN Outcome(b, "InvalidLineIndex", -1)
    ELSE IF Len(b.lines) = 1
    THEN Outcome([b EXCEPT !.lines[1] = <<>>, !.modified = TRUE], "Ok", -1)
    ELSE IF index >= Len(b.lines) THEN Outcome(b, "InvalidLineIndex", -1)
    ELSE Outcome([b EXCEPT !.lines = RemoveAt(b.lines, IF index + 2 <= Len(b.lines) THEN index + 2 ELSE index + 1),
                           !.modified = TRUE], "Ok", -1)

\* Buffer::delete_line
delete_line(b, index) ==
    IF b.lines = <<>> THEN Outcome(b, "InvalidLineIndex", -1)
    ELSE IF Len(b.lines) = 1
    THEN Outcome([b EXCEPT !.lines[1] = <<>>, !.modified = TRUE], "Ok", -1)
    ELSE IF index >= Len(b.lines) THEN Outcome(b, "InvalidLineIndex", -1)
    ELSE Outcome([b EXCEPT !.lines = RemoveAt(b.lines, index + 1), !.modified = TRUE], "Ok", -1)

\* std::fs::write: fails when told to, or when the directory is missing
WriteOk(dr, path, io) == io # "write" /\ path \in Paths /\ Parent(path)[1] \in dr

Stored(b, dk, dr, res) ==
    [file |-> b.file, lines |-> b.lines, modified |-> b.modified, res |-> res, val |-> -1,
     disk |-> dk, dirs |-> dr]

\* save that clears the modified flag after writing
save_clears_modified(b, dk, dr, io) ==
    IF b.file = None THEN Stored(b, dk, dr, "FileNotFound")
    ELSE LET file_path == b.file[1]
             content == JoinLines(b.lines)
         IN IF ~WriteOk(dr, file_path, io) THEN Stored(b, dk, dr, "IoError")
            ELSE Stored([b EXCEPT !.modified = FALSE],
                        [dk EXCEPT ![file_path] = Some(content)], dr, "Ok")

\* Buffer::save
save(b, dk, dr, io) ==
    IF b.file = None THEN Stored(b, dk, dr, "FileNotFound")
    ELSE LET file_path == b.file[1]
             content == JoinLines(b.lines)
         IN IF ~WriteOk(dr, file_path, io) THEN Stored(b, dk, dr, "IoError")
            ELSE Stored(b, [dk EXCEPT ![file_path] = Some(content)], dr, "Ok")

\* save_as that forgets to take the new path when the file exists
save_as_keeps_source(b, dk, dr, file_path, io) ==
    IF Exists(dk, file_path)
    THEN IF ~WriteOk(dr, file_path, io) THEN Stored(b, dk, dr, "IoError")
         ELSE Stored(b, [dk EXCEPT ![file_path] = Some(JoinLines(b.lines))], dr, "Ok")
    ELSE LET parent == Parent(file_path)
         IN IF parent = None THEN Stored(b, dk, dr, "FileNotFound")
            ELSE IF io = "mkdir" THEN Stored(b, dk, dr, "IoError")
            ELSE LET made == dr \cup {parent[1]}
                 IN IF ~WriteOk(made, file_path, io) THEN Stored(b, dk, made, "IoError")
                    ELSE Stored([b EXCEPT !.file = Some(file_path), !.modified = FALSE],
                                [dk EXCEPT ![file_path] = Some(JoinLines(b.lines))], made, "Ok")

\* Buffer::save_as
save_as(b, dk, dr, file_path, io) ==
    IF Exists(dk, file_path)
    THEN IF ~WriteOk(dr, file_path, io) THEN Stored(b, dk, dr, "IoError")
         ELSE Stored([b EXCEPT !.file = Some(file_path)],
                     [dk EXCEPT ![file_path] = Some(JoinLines(b.lines))], dr, "Ok")
    ELSE LET parent == Parent(file_path)
         IN IF parent = None THEN Stored(b, dk, dr, "FileNotFound")
            ELSE IF io = "mkdir" THEN Stored(b, dk, dr, "IoError")
            ELSE LET made == dr \cup {parent[1]}       \* create_dir_all
                 IN IF ~WriteOk(made, file_path, io) THEN Stored(b, dk, made, "IoError")
                    ELSE Stored([b EXCEPT !.file = Some(file_path), !.modified = FALSE],
                                [dk EXCEPT ![file_path] = Some(JoinLines(b.lines))], made, "Ok")

(* ---------------------------- state machine ---------------------------- *)
Init ==
    /\ file = None
    /\ lines = << <<>> >>
    /\ modified = FALSE
    /\ disk \in {[p \in Paths |-> c] : c \in {None} \cup {Some(t) : t \in FileContents}}
    /\ dirs \in {{""}, {"", "d"}}
    /\ Exists(disk, "d/g") => "d" \in dirs
    /\ last = Call("from_file", 0, 0, 0, "", "Ok", -1)
    /\ old = Self

Apply(r, call) ==
    /\ file' = r.file
    /\ lines' = r.lines
    /\ modified' = r.modified
    /\ last' = call
    /\ old' = Self

\* a caller opens a document: the buffer is replaced when from_file succeeds
Create ==
    /\ Running
    /\ \E f \in {None} \cup {Some(p) : p \in PathArgs}, readOk \in BOOLEAN :
          LET r == from_file(disk, f, readOk)
              call == Call("from_file", 0, 0, 0, IF f = None THEN "" ELSE f[1], r.res, r.val)
          IN /\ IF r.res = "Ok" THEN Apply(r, call) ELSE Apply(Outcome(Self, r.res, r.val), call)
             /\ UNCHANGED <<disk, dirs>>

LineLength ==
    /\ Running
    /\ \E index \in 0..MaxIndex :
          LET r == line_length(Self, index)
          IN /\ Apply(r, Call("line_length", index, 0, 0, "", r.res, r.val))
             /\ UNCHANGED <<disk, dirs>>

\* line_count()
LineCount ==
    /\ Running
    /\ Apply(Outcome(Self, "Ok", len(Self)), Call("len", 0, 0, 0, "", "Ok", len(Self)))
    /\ UNCHANGED <<disk, dirs>>

\* line_at(index); the line returned is lines[index + 1]
LineAt ==
    /\ Running
    /\ \E index \in 0..MaxIndex :
          LET g == get_line(Self, index)
          IN /\ Apply(Outcome(Self, g.res, -1), Call("get_line", index, 0, 0, "", g.res, -1))
             /\ UNCHANGED <<disk, dirs>>

\* display_name(); the name returned is recorded in the path field
DisplayName ==
    /\ Running
    /\ Apply(Outcome(Self, "Ok", -1), Call("display_name", 0, 0, 0, display_name(Self), "Ok", -1))
    /\ UNCHANGED <<disk, dirs>>

InsertChar ==
    /\ Running
    /\ \E line \in 0..MaxIndex, col \in 0..MaxCol, c \in Chars :
          /\ ByteLen(JoinLines(lines)) + Utf8Len(c) <= MaxBytes
          /\ LET r == insert_char(Self, line, col, c)
             IN /\ Apply(r, Call("insert_char", line, col, c, "", r.res, r.val))
                /\ UNCHANGED <<disk, dirs>>

RemoveChar ==
    /\ Running
    /\ \E line \in 0..MaxIndex, col \in 0..MaxCol :
          LET r == remove_char(Self, line, col)
          IN /\ Apply(r, Call("remove_char", line, col, 0, "", r.res, r.val))
             /\ UNCHANGED <<disk, dirs>>

JoinWithPreviousLine ==
    /\ Running
    /\ \E line_index \in 0..MaxIndex :
          LET r == join_with_previous_line(Self, line_index)
          IN /\ Apply(r, Call("join_with_previous_line", line_index, 0, 0, "", r.res, r.val))
             /\ UNCHANGED <<disk, dirs>>

DeleteLine ==
    /\ Running
    /\ \E index \in 0..MaxIndex :
          LET r == delete_line(Self, index)
          IN /\ Apply(r, Call("delete_line", index, 0, 0, "", r.res, r.val))
             /\ UNCHANGED <<disk, dirs>>

Save ==
    /\ Running
    /\ \E io \in {"ok", "write"} :
          LET r == save(Self, disk, dirs, io)
          IN /\ Apply(r, Call("save", 0, 0, 0, "", r.res, r.val))
             /\ disk' = r.disk
             /\ dirs' = r.dirs

SaveAs ==
    /\ Running
    /\ \E file_path \in PathArgs, io \in {"ok", "mkdir", "write"} :
          LET r == save_as(Self, disk, dirs, file_path, io)
          IN /\ Apply(r, Call("save_as", 0, 0, 0, file_path, r.res, r.val))
             /\ disk' = r.disk
             /\ dirs' = r.dirs

Next ==
    \/ Create
    \/ LineCount
    \/ LineAt
    \/ LineLength
    \/ DisplayName
    \/ InsertChar
    \/ RemoveChar
    \/ JoinWithPreviousLine
    \/ DeleteLine
    \/ Save
    \/ SaveAs

Spec == Init /\ [][Next]_vars

TypeOK ==
    /\ modified \in BOOLEAN
    /\ Len(file) <= 1
    /\ \A p \in Paths : Len(disk[p]) <= 1

(* ---------------------------- properties ------------------------------- *)
Mutators == {"insert_char", "remove_char", "join_with_previous_line", "delete_line"}
IndexErrors == {"InvalidLineIndex", "InvalidColumnIndex"}

\* the buffer is exactly what it was before the last call
BufferUnchanged == Self = old

\* the line the last call named, as it was before the call
OldLine == old.lines[last.line + 1]

\* line_count() before the last call
OldCount == Len(old.lines)

\* C1: a call of a mutator, save or save_as on a buffer with at least one
\* line leaves at least one line, and delete_line(0) on a single-line
\* buffer leaves exactly one line.
C1_AtLeastOneLine ==
    /\ (last.op \in Mutators \cup {"save", "save_as"} /\ OldCount >= 1) => len(Self) >= 1
    /\ (last.op = "delete_line" /\ last.line = 0 /\ OldCount = 1) => len(Self) = 1

\* delete_line(0) was called again on a single line that was already cleared
C1_Witness ==
    /\ last.op = "delete_line" /\ last.line = 0 /\ last.res = "Ok"
    /\ old.lines = << <<>> >> /\ old.modified
    /\ len(Self) = 1

NumLF(s) == Cardinality({k \in 1..Len(s) : s[k] = LF})

\* C2: loading an existing readable file gives one line per newline-ended
\* piece plus one for an unterminated rest, at least one line for every
\* content, exactly one empty line for an empty file, and modified = false.
C2_LoadSplitsIntoAtLeastOneLine ==
    (last.op = "from_file" /\ last.path \in Paths /\ last.res = "Ok") =>
        LET content == disk[last.path][1]
        IN /\ len(Self) >= 1
           /\ content = <<>> => lines = << <<>> >>
           /\ (content # <<>> /\ content[Len(content)] = LF) => len(Self) = NumLF(content)
           /\ (content # <<>> /\ content[Len(content)] # LF) => len(Self) = NumLF(content) + 1
           /\ modified = FALSE

\* C3: a mutator that returns InvalidLineIndex or InvalidColumnIndex leaves
\* lines, modified and file as they were.
C3_FailedMutationChangesNothing ==
    (last.op \in Mutators /\ last.res \in IndexErrors) => BufferUnchanged

\* insert_char was refused for its column on an unmodified two-line buffer
C3_Witness ==
    /\ last.op = "insert_char" /\ last.res = "InvalidColumnIndex"
    /\ OldCount = 2 /\ ~old.modified

\* C4: no call aborts; every call returns Ok or an error kind.
C4_NoPanic == last.res # "Panic"

\* C5: join_with_previous_line with an index > 0 that is >= line_count()
\* fails with InvalidLineIndex and leaves the buffer unchanged.
C5_JoinOutOfRangeIsInvalidLineIndex ==
    (last.op = "join_with_previous_line" /\ last.line > 0 /\ last.line >= OldCount) =>
        last.res = "InvalidLineIndex" /\ BufferUnchanged

\* C6: join_with_previous_line(0) fails with InvalidLineIndex and leaves
\* lines, modified and file unchanged.
C6_JoinZeroFails ==
    (last.op = "join_with_previous_line" /\ last.line = 0) =>
        last.res = "InvalidLineIndex" /\ BufferUnchanged

\* join_with_previous_line(0) was called on an unmodified buffer of two lines
C6_Witness ==
    /\ last.op = "join_with_previous_line" /\ last.line = 0
    /\ OldCount = 2 /\ ~old.modified

\* C7: join_with_previous_line(i) with 1 <= i < line_count() succeeds, makes
\* line i-1 the old line i-1 followed by the old line i, removes line i,
\* keeps every other line in order, and returns the old length of line i-1.
C7_JoinAppendsAndRemoves ==
    (last.op = "join_with_previous_line" /\ 1 <= last.line /\ last.line < OldCount) =>
        LET i == last.line
        IN /\ last.res = "Ok"
           /\ len(Self) = OldCount - 1
           /\ lines[i] = old.lines[i] \o old.lines[i + 1]
           /\ \A j \in 1..(i - 1) : lines[j] = old.lines[j]
           /\ \A j \in (i + 1)..len(Self) : lines[j] = old.lines[j + 1]
           /\ last.val = line_length(old, i - 1).val

\* two different non-empty lines were joined
C7_Witness ==
    /\ last.op = "join_with_previous_line" /\ last.res = "Ok"
    /\ old.lines[last.line] # <<>> /\ OldLine # <<>>
    /\ old.lines[last.line] # OldLine

\* C8: on an in-range line, insert_char at column line_length(line) appends
\* the character, insert_char at a larger column fails with
\* InvalidColumnIndex, and neither changes another line or line_count().
C8_InsertAtEndAndBeyond ==
    (last.op = "insert_char" /\ last.line < OldCount) =>
        LET n == line_length(old, last.line).val
        IN /\ last.col = n =>
                 /\ last.res = "Ok"
                 /\ lines = [old.lines EXCEPT ![last.line + 1] = Append(OldLine, last.ch)]
           /\ last.col > n =>
                 /\ last.res = "InvalidColumnIndex"
                 /\ lines = old.lines

\* a character was appended to a line that ends in a two-byte character
C8_Witness ==
    /\ last.op = "insert_char" /\ last.res = "Ok" /\ last.line < OldCount
    /\ OldLine # <<>> /\ Utf8Len(OldLine[Len(OldLine)]) = 2
    /\ last.col = ByteLen(OldLine)

\* C9: on an in-range line, remove_char at column line_length(line) fails
\* with InvalidColumnIndex, and when the line is not empty remove_char at
\* line_length(line) - 1 succeeds, returns the last character and leaves the
\* line without it.
C9_RemoveAtEndAndLast ==
    (last.op = "remove_char" /\ last.line < OldCount) =>
        LET n == line_length(old, last.line).val
        IN /\ last.col = n => last.res = "InvalidColumnIndex"
           /\ (n > 0 /\ last.col = n - 1) =>
                 /\ last.res = "Ok"
                 /\ last.val = OldLine[Len(OldLine)]
                 /\ lines = [old.lines EXCEPT ![last.line + 1] = SubSeq(OldLine, 1, Len(OldLine) - 1)]

\* C10: delete_line(0) on a single-line buffer leaves lines = [""]; on a
\* buffer of more lines an index < line_count() removes exactly that line
\* and an index >= line_count() fails with InvalidLineIndex.
C10_DeleteLine ==
    last.op = "delete_line" =>
        LET i == last.line
        IN /\ (OldCount = 1 /\ i = 0) => (last.res = "Ok" /\ lines = << <<>> >>)
           /\ (OldCount > 1 /\ i < OldCount) =>
                 /\ last.res = "Ok"
                 /\ len(Self) = OldCount - 1
                 /\ \A j \in 1..i : lines[j] = old.lines[j]
                 /\ \A j \in (i + 1)..len(Self) : lines[j] = old.lines[j + 1]
           /\ (OldCount > 1 /\ i >= OldCount) => (last.res = "InvalidLineIndex" /\ lines = old.lines)

\* the first of two different lines was deleted
C10_Witness ==
    /\ last.op = "delete_line" /\ last.res = "Ok" /\ last.line = 0
    /\ OldCount = 2 /\ old.lines[1] # old.lines[2]

\* C11: after every successful save_as, modified = false, whether or not
\* the path existed before the call.
C11_SaveAsClearsModified ==
    (last.op = "save_as" /\ last.res = "Ok") => modified = FALSE

\* C12: after a successful save_as(new_path) the source is new_path, the
\* file at new_path holds the lines joined by single newlines, the parent
\* directory of new_path exists, and a following successful save() writes
\* the joined lines to that same source.
C12_SaveAsStoresAndRebinds ==
    /\ (last.op = "save_as" /\ last.res = "Ok") =>
          /\ file = Some(last.path)
          /\ disk[last.path] = Some(JoinLines(lines))
          /\ Parent(last.path)[1] \in dirs
          /\ lines = old.lines
    /\ (last.op = "save" /\ last.res = "Ok") =>
          /\ file = old.file /\ file # None
          /\ disk[file[1]] = Some(JoinLines(lines))

\* save_as succeeded on an edited buffer that had no source
C12_Witness ==
    /\ last.op = "save_as" /\ last.res = "Ok"
    /\ old.file = None /\ old.modified
    /\ lines # << <<>> >>

\* the kind from_file returns for a path that does not exist
SourceNotFound == from_file([p \in Paths |-> None], Some("d/g"), TRUE).res

\* C13: save() on a buffer without a source fails with a kind of its own,
\* different from the kind create returns for a missing path, and writes
\* nothing.
C13_SaveWithoutSourceIsNoDestination ==
    [][(last'.op = "save" /\ file = None) =>
          (last'.res \notin {"Ok", SourceNotFound} /\ disk' = disk)]_vars

\* a text without its last character when that is a newline
DropTrailingLF(s) == IF s # <<>> /\ s[Len(s)] = LF THEN SubSeq(s, 1, Len(s) - 1) ELSE s

\* C14: a successful load of a file followed at once by a successful save()
\* leaves the file with its original content, or with that content less one
\* trailing newline.
C14_LoadSaveRoundTrip ==
    [][(/\ last.op = "from_file" /\ last.res = "Ok" /\ last.path \in Paths
        /\ last'.op = "save" /\ last'.res = "Ok") =>
          disk'[last.path][1] \in {disk[last.path][1], DropTrailingLF(disk[last.path][1])}]_vars

\* C15: a successful mutator leaves modified = true; a buffer created
\* without a path has lines = [""] and modified = false; and modified turns
\* from false to true only by a successful mutator.
C15_ModifiedSetByMutation ==
    /\ (last.op \in Mutators /\ last.res = "Ok") => modified
    /\ (last.op = "from_file" /\ last.res = "Ok" /\ last.path = "") =>
          (file = None /\ lines = << <<>> >> /\ ~modified)
    /\ (~old.modified /\ modified) => (last.op \in Mutators /\ last.res = "Ok")

\* remove_char succeeded on a buffer that was not modified
C15_Witness ==
    /\ last.op = "remove_char" /\ last.res = "Ok"
    /\ ~old.modified /\ lines # old.lines

Readers == {"save", "len", "get_line", "line_length", "display_name"}

\* C16: save() and the queries line_count, line_at, line_length and
\* display_name leave lines, modified and file as they were, whether they
\* succeed or fail.
C16_SaveAndQueriesChangeNothing ==
    last.op \in Readers => BufferUnchanged

\* save() succeeded on a modified buffer
C16_Witness ==
    /\ last.op = "save" /\ last.res = "Ok"
    /\ old.modified /\ lines # << <<>> >>

\* C17: no line of the buffer contains a newline character.
C17_NoNewlineInLines ==
    \A i \in 1..Len(lines) : \A k \in 1..Len(lines[i]) : lines[i][k] # LF

\* C18: delete_line with an index >= line_count() fails with
\* InvalidLineIndex and leaves the buffer unchanged, also on a buffer of
\* exactly one line.
C18_DeleteOutOfRangeFails ==
    (last.op = "delete_line" /\ last.line >= OldCount) =>
        (last.res = "InvalidLineIndex" /\ BufferUnchanged)

\* the last call loaded or stored the lines: they are what was last
\* loaded/saved
JustSynced ==
    /\ last.op \in {"from_file", "save", "save_as"}
    /\ last.res = "Ok"

\* C19: modified = false only while the lines are those last loaded or
\* saved: a state with modified = false either follows a successful load,
\* save or save_as, or follows a call that found modified = false and
\* changed no line.
C19_ModifiedNeverUnderReports ==
    ~modified => (JustSynced \/ (~old.modified /\ lines = old.lines))

\* a mutator was refused on a clean buffer whose non-empty text is the one
\* on disk
C19_Witness ==
    /\ ~modified /\ ~JustSynced
    /\ last.op \in Mutators /\ last.res \in IndexErrors
    /\ file # None /\ JoinLines(lines) # <<>> /\ disk[file[1]] = Some(JoinLines(lines))

\* C20: a successful save() followed at once by a successful load of the
\* source gives the same sequence of lines.
C20_SaveLoadRoundTrip ==
    [][(/\ last.op = "save" /\ last.res = "Ok"
        /\ last'.op = "from_file" /\ last'.res = "Ok" /\ file # None /\ Some(last'.path) = file) =>
          lines' = lines]_vars
====
